---- MODULE Spec2Model ----
\* scripts/check_duplicates.py: a command-line scanner that reports JSON
\* object literals with repeated keys.  The model follows the script line by
\* line: the __main__ block, find_duplicate_keys, its object_pairs_hook
\* parse_object, and the token-level behaviour of json.loads that drives the
\* hook (one hook call per closed object literal, innermost first).
EXTENDS Integers, Sequences, FiniteSets, TLC

\* ---------------------------------------------------------------- bounds
MaxArgs == 3        \* most file arguments on the command line
MaxTokens == 17     \* most JSON tokens accepted from the file of a one-file run
MaxShared == 9      \* most JSON tokens accepted from all files of a longer run
MaxDepth == 2       \* deepest nesting of containers explored
MaxContainers == 3  \* most containers (objects and arrays) opened in one file

\* ---------------------------------------------------------------- inputs
\* Names of the files given on the command line, in order.
ArgNames == <<"f1.json", "f2.json", "f3.json", "f4.json", "f5.json", "f6.json">>

\* sys.argv[1:] for an invocation with n arguments.
ArgList(n) == [j \in 1..n |-> ArgNames[j]]

\* JSON string literals as they are written in the text.  The escape
\* \u0061 is another spelling of the letter a.
StringLits == {"\"a\"", "\"b\"", "\"\\u0061\""}

IsOpener(t) == t \in {"{", "["}
IsCloser(t) == t \in {"}", "]"}

\* Scalar values explored in value position.  A string, true, false or null
\* there takes the same path through the scanner as a number.
Scalars == {"1"}

\* json.decoder.scanstring: the Python string a string literal denotes.
Decode(lit) ==
    CASE lit = "\"a\"" -> "a"
      [] lit = "\"b\"" -> "b"
      [] lit = "\"\\u0061\"" -> "a"

\* ------------------------------------------------------- parse_object
\* keys = [k for k, v in pairs]
KeysOf(pairs) == [j \in 1..Len(pairs) |-> pairs[j].k]

\* Position of key k in a list of entries with field k, 0 when absent.
IndexOf(entries, k) ==
    IF \E j \in 1..Len(entries) : entries[j].k = k
    THEN CHOOSE j \in 1..Len(entries) : entries[j].k = k
    ELSE 0

CounterAddMutNoCount(counts, k) ==
    LET j == IndexOf(counts, k) IN
    IF j = 0 THEN Append(counts, [k |-> k, n |-> 1]) ELSE counts

\* Counter.update of one element: the count of a known key grows in place,
\* a new key is appended (dicts keep insertion order).
CounterAdd(counts, k) ==
    LET j == IndexOf(counts, k) IN
    IF j = 0 THEN Append(counts, [k |-> k, n |-> 1])
    ELSE [counts EXCEPT ![j].n = @ + 1]

\* counts = Counter(keys)
RECURSIVE Counter(_)
Counter(keys) ==
    IF keys = <<>> THEN <<>>
    ELSE CounterAdd(Counter(SubSeq(keys, 1, Len(keys) - 1)), keys[Len(keys)])

IsRepeatedMutAtLeastOnce(n) == n >= 1

\* The test of the list comprehension: v > 1.
IsRepeated(n) == n > 1

Repeat(k, n) == [j \in 1..n |-> k]

RECURSIVE DuplicatesOfMutPerOccurrence(_)
DuplicatesOfMutPerOccurrence(counts) ==
    IF counts = <<>> THEN <<>>
    ELSE LET e == counts[1] IN
         (IF IsRepeated(e.n) THEN Repeat(e.k, e.n) ELSE <<>>)
             \o DuplicatesOfMutPerOccurrence(Tail(counts))

\* duplicates = [k for k, v in counts.items() if v > 1]
DuplicatesOf(counts) ==
    LET hits == SelectSeq(counts, LAMBDA e : IsRepeated(e.n)) IN
    [j \in 1..Len(hits) |-> hits[j].k]

\* dict.__setitem__: a known key keeps its place and takes the new value.
DictSetMutFirstWins(d, k, v) ==
    LET j == IndexOf(d, k) IN
    IF j = 0 THEN Append(d, [k |-> k, v |-> v]) ELSE d

DictSet(d, k, v) ==
    LET j == IndexOf(d, k) IN
    IF j = 0 THEN Append(d, [k |-> k, v |-> v])
    ELSE [d EXCEPT ![j].v = v]

\* return dict(pairs)
RECURSIVE DictOf(_)
DictOf(pairs) ==
    IF pairs = <<>> THEN <<>>
    ELSE LET p == pairs[Len(pairs)] IN
         DictSet(DictOf(SubSeq(pairs, 1, Len(pairs) - 1)), p.k, p.v)

\* -------------------------------------------------------------- output
Line(kind, file, dups, msg) ==
    [kind |-> kind, file |-> file, dups |-> dups, msg |-> msg]

UsageLine == Line("usage", "", <<>>, "Usage: python check_duplicates.py <json_file> [json_file2 ...]")
CheckingLine(file) == Line("checking", file, <<>>, "")
FileLine(file) == Line("file", file, <<>>, "")
FoundLine(file, dups) == Line("found", file, dups, "")
ErrorLine(file, msg) == Line("error", file, <<>>, msg)

\* if duplicates: print(File ...); print(Found duplicate keys ...)
ReportLines(file, dups) ==
    IF dups # <<>> THEN <<FileLine(file), FoundLine(file, dups)>> ELSE <<>>

\* print: lines are written to standard output in the order of the calls.
EmitMutPrepend(out, lines) == lines \o out

Emit(out, lines) == out \o lines

\* -------------------------------------------------------------- scanner
\* What the JSON scanner expects next.
Modes == {"value", "first_elem", "first_key", "key", "colon", "next", "end"}

\* The message of the JSONDecodeError raised when the text does not
\* continue as the scanner expects.
ErrMsg(m) ==
    CASE m \in {"value", "first_elem"} -> "Expecting value"
      [] m \in {"first_key", "key"} -> "Expecting property name enclosed in double quotes"
      [] m = "colon" -> "Expecting ':' delimiter"
      [] m = "next" -> "Expecting ',' delimiter"
      [] m = "end" -> "Extra data"

Frame(kind, open) == [kind |-> kind, open |-> open, pairs |-> <<>>, items |-> <<>>, key |-> ""]

Top(st) == st[Len(st)]
Pop(st) == SubSeq(st, 1, Len(st) - 1)

\* A completed value goes to the enclosing container, or ends the document.
DeliverStack(st, v) ==
    IF st = <<>> THEN st
    ELSE LET f == Top(st) IN
         IF f.kind = "obj"
         THEN [st EXCEPT ![Len(st)].pairs = Append(@, [k |-> f.key, v |-> v]),
                         ![Len(st)].key = ""]
         ELSE [st EXCEPT ![Len(st)].items = Append(@, v)]

DeliverMode(st) == IF st = <<>> THEN "end" ELSE "next"

VARIABLES
    argv,      \* sys.argv[1:]
    pc,        \* position of the program
    i,         \* index into argv of the for loop
    status,    \* process exit status, -1 while running
    results,   \* how each call of find_duplicate_keys ended, in call order
    stdout,    \* lines written to standard output
    content,   \* tokens of the current file's text accepted by the scanner
    nread,     \* tokens accepted so far in this run
    mode,      \* what the scanner expects next
    stack,     \* open containers of the scanner, outermost first
    exc,       \* message of the exception being handled, "" when none
    calls      \* calls of parse_object made for the current file: the
               \* position of the literal, the length of stdout at entry,
               \* the argument, the duplicates, lines written, the result

vars == <<argv, pc, i, status, results, stdout, content, nread, mode, stack, exc, calls>>

scanVars == <<content, nread, mode, stack, calls>>

Init ==
    /\ argv \in {ArgList(n) : n \in 0..MaxArgs}
    /\ pc = "main"
    /\ i = 1
    /\ status = -1
    /\ results = <<>>
    /\ stdout = <<>>
    /\ content = <<>>
    /\ nread = 0
    /\ mode = "value"
    /\ stack = <<>>
    /\ exc = ""
    /\ calls = <<>>

NoArgumentsMutOffByOne(av) == Len(av) + 1 < 1

\* if len(sys.argv) < 2
NoArguments(av) == Len(av) + 1 < 2

\* ------------------------------------------------------------- __main__
\* Usage message and sys.exit(1).
Usage ==
    /\ pc = "main"
    /\ NoArguments(argv)
    /\ stdout' = Emit(stdout, <<UsageLine>>)
    /\ status' = 1
    /\ pc' = "exited"
    /\ UNCHANGED <<argv, i, results, exc>>
    /\ UNCHANGED scanVars

EnterLoop ==
    /\ pc = "main"
    /\ ~NoArguments(argv)
    /\ pc' = "for"
    /\ UNCHANGED <<argv, i, status, results, stdout, exc>>
    /\ UNCHANGED scanVars

\* for arg in sys.argv[1:]: find_duplicate_keys(arg) -- the call starts
\* with the progress line.
Checking ==
    /\ pc = "for"
    /\ i <= Len(argv)
    /\ stdout' = Emit(stdout, <<CheckingLine(argv[i])>>)
    /\ content' = <<>>
    /\ mode' = "value"
    /\ stack' = <<>>
    /\ calls' = <<>>
    /\ exc' = ""
    /\ pc' = "open"
    /\ UNCHANGED <<argv, i, status, results, nread>>

\* The loop is exhausted: the interpreter exits with status 0.
LoopEnd ==
    /\ pc = "for"
    /\ i > Len(argv)
    /\ status' = 0
    /\ pc' = "exited"
    /\ UNCHANGED <<argv, i, results, stdout, exc>>
    /\ UNCHANGED scanVars

\* An exception that leaves find_duplicate_keys is not handled in __main__:
\* the interpreter writes a traceback to standard error and exits with 1.
Propagate(name) ==
    /\ results' = Append(results, [file |-> argv[i], end |-> "raised", error |-> name])
    /\ status' = 1
    /\ pc' = "exited"
    /\ UNCHANGED <<argv, i, stdout, exc>>
    /\ UNCHANGED scanVars

\* ------------------------------------------------- find_duplicate_keys
\* open(json_file, 'r', encoding='utf-8') fails (missing file, a directory,
\* no permission): OSError, raised outside the try statement.
OpenFails ==
    /\ pc = "open"
    /\ Propagate("OSError")

OpenOk ==
    /\ pc = "open"
    /\ pc' = "read"
    /\ UNCHANGED <<argv, i, status, results, stdout, exc>>
    /\ UNCHANGED scanVars

\* f.read() meets bytes that are not UTF-8: UnicodeDecodeError, raised
\* outside the try statement.
ReadFails ==
    /\ pc = "read"
    /\ Propagate("UnicodeDecodeError")

\* f.read() returns the text; json.loads starts on it.
ReadOk ==
    /\ pc = "read"
    /\ pc' = "loads"
    /\ UNCHANGED <<argv, i, status, results, stdout, exc>>
    /\ UNCHANGED scanVars

mainVars == <<argv, pc, i, status, results, stdout, exc>>

\* The scanner accepts token tok at the next position.
Accept(tok) == content' = Append(content, tok) /\ nread' = nread + 1

\* The exploration stops extending a text at the bound of the run.
TokenLimit == IF Len(argv) = 1 THEN MaxTokens ELSE MaxShared

CanScan == pc = "loads" /\ nread < TokenLimit

ExpectsValue == mode \in {"value", "first_elem"}

\* The exploration opens another container only within its bounds.
CanOpen ==
    /\ Len(stack) < MaxDepth
    /\ Cardinality({q \in 1..Len(content) : IsOpener(content[q])}) < MaxContainers

ScanOpenObject ==
    /\ CanScan
    /\ ExpectsValue
    /\ CanOpen
    /\ Accept("{")
    /\ stack' = Append(stack, Frame("obj", Len(content) + 1))
    /\ mode' = "first_key"
    /\ UNCHANGED <<calls>>
    /\ UNCHANGED mainVars

ScanOpenArray ==
    /\ CanScan
    /\ ExpectsValue
    /\ CanOpen
    /\ Accept("[")
    /\ stack' = Append(stack, Frame("arr", Len(content) + 1))
    /\ mode' = "first_elem"
    /\ UNCHANGED <<calls>>
    /\ UNCHANGED mainVars

\* A number or a string in value position.
ScanScalar ==
    /\ CanScan
    /\ ExpectsValue
    /\ \E tok \in Scalars : Accept(tok)
    /\ stack' = DeliverStack(stack, Len(content) + 1)
    /\ mode' = DeliverMode(stack)
    /\ UNCHANGED <<calls>>
    /\ UNCHANGED mainVars

\* A property name.
ScanKey ==
    /\ CanScan
    /\ mode \in {"first_key", "key"}
    /\ \E lit \in StringLits :
          /\ Accept(lit)
          /\ stack' = [stack EXCEPT ![Len(stack)].key = Decode(lit)]
    /\ mode' = "colon"
    /\ UNCHANGED <<calls>>
    /\ UNCHANGED mainVars

ScanColon ==
    /\ CanScan
    /\ mode = "colon"
    /\ Accept(":")
    /\ mode' = "value"
    /\ UNCHANGED <<stack, calls>>
    /\ UNCHANGED mainVars

ScanComma ==
    /\ CanScan
    /\ mode = "next"
    /\ Accept(",")
    /\ mode' = IF Top(stack).kind = "obj" THEN "key" ELSE "value"
    /\ UNCHANGED <<stack, calls>>
    /\ UNCHANGED mainVars

ScanCloseArray ==
    /\ CanScan
    /\ mode \in {"first_elem", "next"}
    /\ Top(stack).kind = "arr"
    /\ Accept("]")
    /\ stack' = DeliverStack(Pop(stack), Top(stack).open)
    /\ mode' = DeliverMode(Pop(stack))
    /\ UNCHANGED <<calls>>
    /\ UNCHANGED mainVars

\* The object literal is complete: json.loads calls parse_object with its
\* pairs, and the value it returns becomes the value of the literal.
ScanCloseObject ==
    /\ CanScan
    /\ mode \in {"first_key", "next"}
    /\ Top(stack).kind = "obj"
    /\ Accept("}")
    /\ LET f == Top(stack)
           keys == KeysOf(f.pairs)
           counts == Counter(keys)
           duplicates == DuplicatesOf(counts)
           lines == ReportLines(argv[i], duplicates)
       IN /\ stdout' = Emit(stdout, lines)
          /\ calls' = Append(calls, [open |-> f.open,
                                     out |-> Len(stdout),
                                     pairs |-> f.pairs,
                                     duplicates |-> duplicates,
                                     lines |-> Len(lines),
                                     ret |-> DictOf(f.pairs)])
          /\ stack' = DeliverStack(Pop(stack), f.open)
          /\ mode' = DeliverMode(Pop(stack))
    /\ UNCHANGED <<argv, pc, i, status, results, exc>>

\* The text ends early, or goes on with a character the scanner does not
\* expect (in every mode some character is refused; after a complete
\* document every character is): json.loads raises JSONDecodeError inside
\* the try statement.
ScanError ==
    /\ pc = "loads"
    /\ exc' = ErrMsg(mode)
    /\ pc' = "except"
    /\ UNCHANGED <<argv, i, status, results, stdout>>
    /\ UNCHANGED scanVars

\* except Exception as e: print(Error parsing ...), then the call returns.
Except ==
    /\ pc = "except"
    /\ stdout' = Emit(stdout, <<ErrorLine(argv[i], exc)>>)
    /\ results' = Append(results, [file |-> argv[i], end |-> "caught", error |-> exc])
    /\ i' = i + 1
    /\ pc' = "for"
    /\ UNCHANGED <<argv, status, exc>>
    /\ UNCHANGED scanVars

\* The text ends after a complete value: json.loads returns, and so does
\* find_duplicate_keys.
ScanEnd ==
    /\ pc = "loads"
    /\ mode = "end"
    /\ results' = Append(results, [file |-> argv[i], end |-> "parsed", error |-> ""])
    /\ i' = i + 1
    /\ pc' = "for"
    /\ UNCHANGED <<argv, status, stdout, exc>>
    /\ UNCHANGED scanVars

Next ==
    \/ Usage
    \/ EnterLoop
    \/ Checking
    \/ LoopEnd
    \/ OpenFails
    \/ OpenOk
    \/ ReadFails
    \/ ReadOk
    \/ ScanOpenObject
    \/ ScanOpenArray
    \/ ScanScalar
    \/ ScanKey
    \/ ScanColon
    \/ ScanComma
    \/ ScanCloseArray
    \/ ScanCloseObject
    \/ ScanError
    \/ Except
    \/ ScanEnd

Spec == Init /\ [][Next]_vars

\* ------------------------------------------------- reading of the text
\* What the text of a file says, read off the token sequence itself and
\* not off the scanner's stack: nesting depth, the closing brace of an
\* object literal, the positions and counts of its immediate keys.
\* Position of the token that closes the container whose inside is being
\* read at position p, d containers deep (1: immediately inside); 0 if the
\* text ends first.
RECURSIVE CloserFrom(_, _, _)
CloserFrom(c, p, d) ==
    IF p > Len(c) THEN 0
    ELSE IF IsCloser(c[p]) THEN (IF d = 1 THEN p ELSE CloserFrom(c, p + 1, d - 1))
    ELSE IF IsOpener(c[p]) THEN CloserFrom(c, p + 1, d + 1)
    ELSE CloserFrom(c, p + 1, d)

\* Position of the brace that closes the literal opened at o, 0 if still open.
MatchOf(c, o) == CloserFrom(c, o + 1, 1)

\* The immediate keys, decoded and in text order, of the literal being read
\* at position p: the strings followed by a colon that are not inside a
\* nested container.
RECURSIVE KeysFrom(_, _, _)
KeysFrom(c, p, d) ==
    IF p > Len(c) THEN <<>>
    ELSE IF IsCloser(c[p]) THEN (IF d = 1 THEN <<>> ELSE KeysFrom(c, p + 1, d - 1))
    ELSE IF IsOpener(c[p]) THEN KeysFrom(c, p + 1, d + 1)
    ELSE IF d = 1 /\ c[p] \in StringLits /\ p < Len(c) /\ c[p + 1] = ":"
         THEN <<Decode(c[p])>> \o KeysFrom(c, p + 1, d)
    ELSE KeysFrom(c, p + 1, d)

ImmediateKeys(c, o) == KeysFrom(c, o + 1, 1)

ObjectsIn(c) == {o \in 1..Len(c) : c[o] = "{"}

ClosedObjectsIn(c) == {o \in ObjectsIn(c) : MatchOf(c, o) # 0}

KeyNames == {Decode(lit) : lit \in StringLits}

Occurrences(seq, x) == Cardinality({j \in 1..Len(seq) : seq[j] = x})

KeyCount(c, o, k) == Occurrences(ImmediateKeys(c, o), k)

RepeatedIn(keys) == \E j, m \in 1..Len(keys) : j < m /\ keys[j] = keys[m]

HasRepeatedKey(c, o) == RepeatedIn(ImmediateKeys(c, o))

Last(seq) == seq[Len(seq)]

CallSet == {calls[j] : j \in 1..Len(calls)}

\* Index in stdout of the progress line of the file being processed.
LastChecking ==
    IF \E n \in 1..Len(stdout) : stdout[n].kind = "checking"
    THEN CHOOSE n \in 1..Len(stdout) :
            /\ stdout[n].kind = "checking"
            /\ \A m \in 1..Len(stdout) : stdout[m].kind = "checking" => m <= n
    ELSE 0

\* Lines of the given kind written for the file being processed.
LinesOfKind(kind) == {n \in (LastChecking + 1)..Len(stdout) : stdout[n].kind = kind}

\* The two report lines of call cl stand in stdout where the call wrote them.
ReportStands(cl) ==
    /\ cl.lines = 2
    /\ cl.out + 2 <= Len(stdout)
    /\ stdout[cl.out + 1].kind = "file"
    /\ stdout[cl.out + 2].kind = "found"

ReportedList(cl) == stdout[cl.out + 2].dups

\* The last call of find_duplicate_keys has ended in the given way and the
\* next one has not started.
FileEnded(how) ==
    /\ pc \in {"for", "exited"}
    /\ results # <<>>
    /\ Last(results).end = how

\* ---------------------------------------------------------- properties
\* C1: a file that cannot be opened or decoded does not make
\* find_duplicate_keys raise: no call ends with an exception leaving it, and
\* at exit every argument has had its call.
C1_ReadErrorContained ==
    /\ \A j \in 1..Len(results) : results[j].end # "raised"
    /\ pc = "exited" /\ argv # <<>> => Len(results) = Len(argv)

\* C2: with one or more file arguments the exit status is 0 whatever
\* happened in the files.
C2_ExitStatusZero ==
    pc = "exited" /\ Len(argv) >= 1 => status = 0

\* C3: a file that is not valid JSON gets an error line naming it, and at
\* exit every later argument has been attempted (has its progress line).
C3_ParseErrorDoesNotHalt ==
    \A j \in 1..Len(results) :
        results[j].end = "caught" =>
            /\ \E n \in 1..Len(stdout) :
                  stdout[n].kind = "error" /\ stdout[n].file = argv[j]
            /\ pc = "exited" =>
                  \A k \in (j + 1)..Len(argv) :
                      \E n \in 1..Len(stdout) :
                          stdout[n].kind = "checking" /\ stdout[n].file = argv[k]

\* C4: every key that occurs two or more times among the immediate keys of
\* an object literal is in the list reported for that literal, exactly once.
C4_RepeatedKeyListedOnce ==
    \A cl \in CallSet :
        LET keys == ImmediateKeys(content, cl.open) IN
        \A k \in KeyNames :
            Occurrences(keys, k) >= 2 =>
                /\ ReportStands(cl)
                /\ Occurrences(ReportedList(cl), k) = 1

C4_Witness ==
    \E cl \in CallSet :
        /\ \E k \in KeyNames : KeyCount(content, cl.open, k) >= 3
        /\ ReportStands(cl)

\* C5: an object literal whose immediate keys are all distinct gets no
\* report, and every reported list belongs to a literal with a repeated key
\* and holds only keys that occur at least twice in it.
C5_DistinctKeysNoReport ==
    /\ \A cl \in CallSet :
          ~HasRepeatedKey(content, cl.open) => cl.lines = 0
    /\ \A n \in LinesOfKind("found") :
          \E cl \in CallSet :
              /\ cl.out + 2 = n
              /\ stdout[n].dups # <<>>
              /\ LET keys == ImmediateKeys(content, cl.open) IN
                 \A j \in 1..Len(stdout[n].dups) :
                     Occurrences(keys, stdout[n].dups[j]) >= 2

C5_Witness ==
    /\ FileEnded("parsed")
    /\ LinesOfKind("found") = {}
    /\ \E cl \in CallSet : \A k \in KeyNames : KeyCount(content, cl.open, k) = 1
    /\ \E cl \in CallSet : cl.pairs = <<>>

\* C6: when a document has parsed, parse_object has been called once for
\* every object literal of it at any depth, a literal has its report exactly
\* when it has a repeated immediate key, and the number of reports of the
\* file is the number of such literals.
C6_EveryObjectChecked ==
    FileEnded("parsed") =>
        /\ Len(calls) = Cardinality(ObjectsIn(content))
        /\ {cl.open : cl \in CallSet} = ObjectsIn(content)
        /\ \A cl \in CallSet : ReportStands(cl) <=> HasRepeatedKey(content, cl.open)
        /\ \A cl \in CallSet : cl.lines # 0 => ReportStands(cl)
        /\ Cardinality(LinesOfKind("found"))
              = Cardinality({o \in ObjectsIn(content) : HasRepeatedKey(content, o)})

\* [{"x":1,"x":2},{"y":1}]: two sibling literals in an array, one report.
C6_Witness ==
    /\ FileEnded("parsed")
    /\ content[1] = "["
    /\ Cardinality(ObjectsIn(content)) = 2
    /\ Cardinality(LinesOfKind("found")) = 1
    /\ \E o \in ObjectsIn(content) : Len(ImmediateKeys(content, o)) = 1

\* C7: with no file argument the program writes the usage line and exits
\* with status 1, and does nothing else: no call, no token read, no other
\* line.
C7_UsageExit ==
    argv = <<>> =>
        /\ pc \in {"main", "exited"}
        /\ results = <<>>
        /\ nread = 0
        /\ pc = "main" => stdout = <<>> /\ status = -1
        /\ pc = "exited" => stdout = <<UsageLine>> /\ status = 1

C7_Witness == argv = <<>> /\ pc = "exited" /\ status = 1

\* C8: the mapping parse_object returns has the distinct keys of its
\* argument, each once, and maps each to the value of the last pair with
\* that key.
C8_LastWriteWins ==
    \A cl \in CallSet :
        /\ {cl.ret[j].k : j \in 1..Len(cl.ret)} = {cl.pairs[j].k : j \in 1..Len(cl.pairs)}
        /\ \A j \in 1..Len(cl.ret) :
              /\ Occurrences(KeysOf(cl.ret), cl.ret[j].k) = 1
              /\ \E m \in 1..Len(cl.pairs) :
                    /\ cl.pairs[m].k = cl.ret[j].k
                    /\ cl.pairs[m].v = cl.ret[j].v
                    /\ \A m2 \in (m + 1)..Len(cl.pairs) : cl.pairs[m2].k # cl.ret[j].k

\* {"a": 1, "b": 2, "a": 3}: the value kept for a is the third one.
C8_Witness ==
    \E cl \in CallSet :
        /\ KeysOf(cl.pairs) = <<"a", "b", "a">>
        /\ ReportStands(cl)
        /\ KeysOf(cl.ret) = <<"a", "b">>
        /\ cl.ret[1].v = cl.pairs[3].v
        /\ cl.ret[1].v # cl.pairs[1].v

\* The files of the progress lines, in output order.
CheckedFiles ==
    LET lines == SelectSeq(stdout, LAMBDA l : l.kind = "checking") IN
    [j \in 1..Len(lines) |-> lines[j].file]

\* C9: every argument is attempted exactly once, in argument order, none
\* skipped; the output of a file starts with its progress line and follows
\* all output of the file before it.
C9_EachFileOnceInOrder ==
    /\ \A n \in 1..Len(stdout) :
          stdout[n].kind \in {"file", "found", "error"} =>
              /\ n > 1
              /\ stdout[n - 1].file = stdout[n].file
    /\ CheckedFiles = SubSeq(argv, 1, Len(CheckedFiles))
    /\ pc = "exited" /\ argv # <<>> => CheckedFiles = argv

\* C10: a report is written when its literal closes.  (i) The report of a
\* literal nested in another stands before the report of the enclosing one.
\* (ii) When parsing fails, every literal closed before the failure that has
\* a repeated key already has its report, and one error line for the file
\* follows them as the last line.
C10_ReportsAtClose ==
    /\ \A c1, c2 \in CallSet :
          /\ c1.lines = 2
          /\ c2.lines = 2
          /\ c2.open < c1.open
          /\ c1.open < MatchOf(content, c2.open)
          => ReportStands(c1) /\ ReportStands(c2) /\ c1.out + 2 <= c2.out
    /\ pc = "except" \/ FileEnded("caught") =>
          \A o \in ClosedObjectsIn(content) :
              HasRepeatedKey(content, o) =>
                  \E cl \in CallSet :
                      /\ cl.open = o
                      /\ ReportStands(cl)
                      /\ cl.out >= LastChecking
                      /\ ReportedList(cl) = cl.duplicates
    /\ FileEnded("caught") =>
          /\ LinesOfKind("error") = {Len(stdout)}
          /\ Last(stdout).file = Last(results).file
          /\ Last(stdout).msg = Last(results).error

\* Two nested reports followed by a parse error in the same file.
C10_Witness ==
    /\ FileEnded("caught")
    /\ \E c1, c2 \in CallSet :
          /\ c2.open < c1.open
          /\ c1.open < MatchOf(content, c2.open)
          /\ ReportStands(c1)
          /\ ReportStands(c2)
    /\ Last(stdout).kind = "error"
====
